---- MODULE Spec2Model ----
(***************************************************************************)
(* The resilient request pipeline of services/authService.js: the shared   *)
(* CircuitBreaker, the RequestQueue (offline queue) with its drain loop,   *)
(* the connectivity heuristic checkConnection and makeRequest with its     *)
(* retry loop.                                                             *)
(*                                                                         *)
(* JavaScript runs one task at a time, so an action is one task: the       *)
(* synchronous code from an event (a call, a settled promise, a timer)     *)
(* up to the next await that waits for a timer or for the network,         *)
(* together with the promise reactions (microtasks) it triggers.           *)
(*                                                                         *)
(* Time is Date.now() in milliseconds, read at the resolution TickMs.      *)
(***************************************************************************)
EXTENDS Integers, Sequences, FiniteSets, TLC

\* ------------------------------------------------------------------ bounds
MaxTicks == 4        \* the clock stops after MaxTicks ticks
MaxItems == 2        \* requests a client of the queue ever enqueues
MaxOffline == 1      \* requests the application's makeRequest calls ever enqueue
NUserCalls == 2      \* makeRequest calls the application has running at once

\* ------------------------------------------------- configuration constants
timeout == 45000             \* API_CONFIG.REQUEST_CONFIG.timeout
retries == 3                 \* API_CONFIG.REQUEST_CONFIG.retries
retryDelay == 1000           \* API_CONFIG.REQUEST_CONFIG.retryDelay
maxRetryDelay == 10000       \* API_CONFIG.REQUEST_CONFIG.maxRetryDelay
connectionTimeout == 15000   \* API_CONFIG.REQUEST_CONFIG.connectionTimeout
resetTimeout == 60000        \* CircuitBreaker.resetTimeout
failureThreshold == 5        \* CircuitBreaker.failureThreshold

NULL == -1                   \* JavaScript null / a missing localStorage item

\* The clock's resolution: every timeout compared against the clock
\* (15 s, 30 s, 45 s, 60 s) is a multiple of the connection timeout.
TickMs == connectionTimeout

QueueCall == 0                       \* the makeRequest run by a queued request's execute()
UserCalls == 1..NUserCalls           \* makeRequest calls made by AuthService
Calls == {QueueCall} \cup UserCalls

\* Response statuses the server may answer with, and the `message` of the body.
Statuses == {200, 400, 401, 403, 404, 503}
ServerMessages == {"", "session timeout"}
\* Math.random() * 1000, at its two ends
Jitters == {0, 999}
jitterBound == 1000          \* Math.random() * 1000
MaxAttempt == 5              \* retry attempts calculateRetryDelay is tried with

VARIABLES
    now,                    \* Date.now()
    onLine,                 \* navigator.onLine
    lastSuccessfulRequest,  \* localStorage item 'lastSuccessfulRequest' (NULL: absent)
    circuitBreaker,         \* the shared CircuitBreaker
    requestQueue,           \* the shared RequestQueue: queue and processing
    drain,                  \* where processQueue is suspended
    call,                   \* the makeRequest calls
    nextId,                 \* number of the next request enqueued
    lastExecuted,           \* number of the queued request whose execute() ran last (0: none)
    event,                  \* what the last step did: the response read, the call settled
    scenario,               \* what the environment does, see Scenarios
    webSocketService,       \* the WebSocketService object
    sockets,                \* the WebSocket objects the service no longer refers to
    reconnectTimers,        \* the pending timers of handleReconnection
    wsEvent,                \* what the last step of the WebSocketService did
    probe,                  \* a call of calculateRetryDelay: its arguments and its result
    abandoned               \* per call, its fetches left pending when the timeout won the race

\* the state of services/authService.js, and that of WebSocketService.js
httpVars == <<now, onLine, lastSuccessfulRequest, circuitBreaker, requestQueue, drain,
              call, nextId, lastExecuted, event, scenario>>
wsVars == <<webSocketService, sockets, reconnectTimers, wsEvent>>

vars == <<now, onLine, lastSuccessfulRequest, circuitBreaker, requestQueue, drain,
          call, nextId, lastExecuted, event, scenario,
          webSocketService, sockets, reconnectTimers, wsEvent, probe, abandoned>>

\* ------------------------------------------------------------------ errors
Err(name, message) == [name |-> name, message |-> message, context |-> << >>]
NoResult == Err("none", "")
Data == Err("data", "")          \* the parsed body of an OK response

\* error.message.includes('timeout')
MessageIncludesTimeout(message) ==
    message \in {"Connection timeout", "Request timeout", "session timeout"}

isRetryableError(error) ==
    \/ error.name = "NetworkError"
    \/ error.name = "ServerError"
    \/ error.name = "TypeError"
    \/ MessageIncludesTimeout(error.message)

\* What the last step did: read no response and settled no call
NoEvent ==
    [call |-> NULL,          \* the call it ran
     status |-> 0,           \* status and body message of the response it read
     message |-> "",         \*   after response.json() (0: none)
     result |-> NoResult,    \* what the call settled with, if it settled
     attempts |-> 0,         \* fetch() calls the settled call had made
     enqueued |-> 0]         \* requests the settled invocation added to the queue

\* ---------------------------------------------------------- CircuitBreaker
NewCircuitBreaker == [failureCount |-> 0, lastFailureTime |-> NULL, state |-> "CLOSED"]

\* recordSuccess that closes the breaker and keeps the count
recordSuccessKeepsCount(cb) == [cb EXCEPT !.state = "CLOSED"]

recordSuccess(cb) == [cb EXCEPT !.failureCount = 0, !.state = "CLOSED"]

\* recordFailure that opens only above the threshold
recordFailureAboveThreshold(cb, t) ==
    LET n == cb.failureCount + 1
    IN  [cb EXCEPT !.failureCount = n,
                   !.lastFailureTime = t,
                   !.state = IF n > failureThreshold THEN "OPEN" ELSE @]

\* recordFailure that does not note the time of the failure
recordFailureNoTime(cb, t) ==
    LET n == cb.failureCount + 1
    IN  [cb EXCEPT !.failureCount = n,
                   !.state = IF n >= failureThreshold THEN "OPEN" ELSE @]

recordFailure(cb, t) ==
    LET n == cb.failureCount + 1
    IN  [cb EXCEPT !.failureCount = n,
                   !.lastFailureTime = t,
                   !.state = IF n >= failureThreshold THEN "OPEN" ELSE @]

\* Date.now() - null is Date.now() - 0
ToNumber(v) == IF v = NULL THEN 0 ELSE v

\* canRequest that counts a rejected attempt as a failure
canRequestCountsRejection(cb, t) ==
    IF cb.state = "CLOSED" THEN [result |-> TRUE, cb |-> cb]
    ELSE IF cb.state = "OPEN"
         THEN IF t - ToNumber(cb.lastFailureTime) >= resetTimeout
              THEN [result |-> TRUE, cb |-> [cb EXCEPT !.state = "HALF_OPEN"]]
              ELSE [result |-> FALSE, cb |-> [cb EXCEPT !.failureCount = @ + 1]]
         ELSE [result |-> cb.state = "HALF_OPEN", cb |-> cb]

\* canRequest() returns a verdict and may move OPEN to HALF_OPEN
canRequest(cb, t) ==
    IF cb.state = "CLOSED" THEN [result |-> TRUE, cb |-> cb]
    ELSE IF cb.state = "OPEN"
         THEN IF t - ToNumber(cb.lastFailureTime) >= resetTimeout
              THEN [result |-> TRUE, cb |-> [cb EXCEPT !.state = "HALF_OPEN"]]
              ELSE [result |-> FALSE, cb |-> cb]
         ELSE [result |-> cb.state = "HALF_OPEN", cb |-> cb]

\* ------------------------------------------------------------- environment
\* The runs explored, to keep them finite:
\*   "sequential"  the application runs one makeRequest call at a time, and
\*                 its calls find the connection down at most MaxOffline times;
\*   "concurrent"  the application runs up to NUserCalls calls at once, and
\*                 calls them only while checkConnection() holds;
\*   "client"      RequestQueue on its own: a client adds up to MaxItems
\*                 requests like makeRequest's at any time, the application
\*                 makes no call of its own.
Scenarios == {"sequential", "concurrent", "client"}

MaxEnqueued ==
    CASE scenario = "sequential" -> MaxOffline
      [] scenario = "concurrent" -> 0
      [] scenario = "client" -> MaxItems

RunningCalls ==
    CASE scenario = "sequential" -> {1}
      [] scenario = "concurrent" -> UserCalls
      [] scenario = "client" -> {}

\* The program's state as one record, so that the synchronous code of a task
\* can be composed of the functions it calls.
State ==
    [now |-> now, onLine |-> onLine, lastSuccessfulRequest |-> lastSuccessfulRequest,
     circuitBreaker |-> circuitBreaker, requestQueue |-> requestQueue, drain |-> drain,
     call |-> call, nextId |-> nextId, lastExecuted |-> lastExecuted, event |-> NoEvent,
     abandoned |-> abandoned]

Commit(S) ==
    /\ S.nextId <= MaxEnqueued + 1
    /\ now' = S.now
    /\ onLine' = S.onLine
    /\ lastSuccessfulRequest' = S.lastSuccessfulRequest
    /\ circuitBreaker' = S.circuitBreaker
    /\ requestQueue' = S.requestQueue
    /\ drain' = S.drain
    /\ call' = S.call
    /\ nextId' = S.nextId
    /\ lastExecuted' = S.lastExecuted
    /\ event' = S.event
    /\ scenario' = scenario
    /\ abandoned' = S.abandoned
    /\ UNCHANGED <<wsVars, probe>>

checkConnection(S) ==
    IF ~S.onLine THEN FALSE
    ELSE IF S.lastSuccessfulRequest = NULL THEN TRUE
    ELSE S.lastSuccessfulRequest > S.now - 30000

Min(a, b) == IF a < b THEN a ELSE b

\* calculateRetryDelay without Math.min
calculateRetryDelayUncapped(retryAttempt, jitter) ==
    retryDelay * (2 ^ retryAttempt) + jitter

calculateRetryDelay(retryAttempt, jitter) ==
    Min(retryDelay * (2 ^ retryAttempt) + jitter, maxRetryDelay)

\* no call of calculateRetryDelay made
NoProbe == [retryAttempt |-> 0, jitter |-> 0, delay |-> NULL]

\* the errors the try block of makeRequest can throw into its catch block
Thrown ==
    {Err("AbortError", "The user aborted a request."),
     Err("TypeError", "Failed to fetch"),
     Err("NetworkError", "Connection timeout"),
     Err("ServerError", "Server error occurred"),
     Err("ValidationError", "Invalid request"),
     Err("ValidationError", "session timeout"),
     Err("AuthenticationError", "Authentication failed"),
     Err("AuthenticationError", "session timeout"),
     Err("Error", "Request failed"),
     Err("SyntaxError", "Unexpected token")}

\* ------------------------------------------------------------------- calls
NoResponse == "none"
Response == "response"     \* a response that passed validateStatus

IdleCall ==
    [pc |-> "idle",            \* idle, fetch (awaiting the race), json, delay
     retries |-> 0,            \* the `retries` argument of the running invocation
     timer |-> NULL,           \* when the connection timeout ends / the retry delay began
     abortAt |-> NULL,         \* when timeoutId aborts the controller
     response |-> NoResponse,  \* the response whose body is being read
     attempts |-> 0]           \* fetch() calls made by this logical call

\* Where processQueue is suspended (idle, execute, delay), the time its 1 s
\* delay ends, and the number of processQueue loops that have started and
\* not yet reached line 115.
IdleDrain == [pc |-> "idle", timer |-> NULL, loops |-> 0]

\* processQueue leaves its loop: line 115
endLoop(S) ==
    [S EXCEPT !.requestQueue.processing = FALSE,
              !.drain = [IdleDrain EXCEPT !.loops = S.drain.loops - 1]]

RECURSIVE makeRequest(_, _, _)
RECURSIVE processQueue(_)

\* afterExecute that removes the head whatever execute() settled with
afterExecutePopsAlways(S, result) ==
    IF result.name = "data" \/ ~isRetryableError(result)
    THEN [S EXCEPT !.requestQueue.queue = Tail(@),
                   !.drain = [@ EXCEPT !.pc = "delay", !.timer = S.now + 1000]]
    ELSE endLoop([S EXCEPT !.requestQueue.queue = Tail(@)])

\* processQueue after `await request.execute()` settled with `result`
\* (lines 101-112): pop on success or on a non-retryable error and wait 1 s,
\* stop on a retryable error.
afterExecute(S, result) ==
    IF result.name = "data" \/ ~isRetryableError(result)
    THEN [S EXCEPT !.requestQueue.queue = Tail(@),
                   !.drain = [@ EXCEPT !.pc = "delay", !.timer = S.now + 1000]]
    ELSE endLoop(S)

\* A call settles: the caller's promise resolves or rejects. The drain loop is
\* the caller of QueueCall.
Settle(S, c, result) ==
    LET S1 == [S EXCEPT !.call[c] = IdleCall,
                        !.abandoned[c] = 0,
                        !.event = [@ EXCEPT !.call = c, !.result = result,
                                            !.attempts = S.call[c].attempts]]
    IN  IF c = QueueCall THEN afterExecute(S1, result) ELSE S1

\* One pass of the while loop of processQueue, from its test to the next await.
processQueueLoop(S) ==
    IF Len(S.requestQueue.queue) = 0
    THEN endLoop(S)
    ELSE LET request == Head(S.requestQueue.queue)
         IN  IF checkConnection(S)
             THEN makeRequest(
                     [S EXCEPT !.drain = [@ EXCEPT !.pc = "execute", !.timer = NULL],
                               !.lastExecuted = request.id,
                               !.call[QueueCall] = IdleCall],
                     QueueCall, request.retries)
             ELSE endLoop(S)

\* processQueue that never sets the processing flag
processQueueNoFlag(S) ==
    IF S.requestQueue.processing \/ Len(S.requestQueue.queue) = 0
    THEN S
    ELSE processQueueLoop([S EXCEPT !.drain.loops = @ + 1])

processQueue(S) ==
    IF S.requestQueue.processing \/ Len(S.requestQueue.queue) = 0
    THEN S
    ELSE processQueueLoop([S EXCEPT !.requestQueue.processing = TRUE,
                                    !.drain.loops = @ + 1])

\* add that pushes the request twice
addTwice(S, request) ==
    LET S1 == [S EXCEPT !.requestQueue.queue = Append(Append(@, request), request)]
    IN  IF ~S1.requestQueue.processing THEN processQueue(S1) ELSE S1

\* add that puts the request at the front of the queue
addFront(S, request) ==
    LET S1 == [S EXCEPT !.requestQueue.queue = <<request>> \o @]
    IN  IF ~S1.requestQueue.processing THEN processQueue(S1) ELSE S1

\* RequestQueue.add
add(S, request) ==
    LET S1 == [S EXCEPT !.requestQueue.queue = Append(@, request)]
    IN  IF ~S1.requestQueue.processing THEN processQueue(S1) ELSE S1

\* The request object makeRequest enqueues: execute re-runs makeRequest with
\* the same `retries`. (Its timestamp is never read and is left out; id numbers
\* the requests in the order they were enqueued.)
QueuedRequest(S, r) == [id |-> S.nextId, retries |-> r]

\* makeRequest(url, options, retries) up to its first await (lines 159-196)
makeRequest(S, c, r) ==
    LET gate == canRequest(S.circuitBreaker, S.now)
        S1 == [S EXCEPT !.circuitBreaker = gate.cb]
    IN  IF ~gate.result
        THEN Settle(S1, c, [Err("NetworkError", "Service temporarily unavailable")
                               EXCEPT !.context = <<S1.circuitBreaker.state,
                                                    S1.circuitBreaker.failureCount>>])
        ELSE IF ~checkConnection(S1)
        THEN LET S2 == add([S1 EXCEPT !.nextId = @ + 1, !.event.enqueued = 1],
                           QueuedRequest(S1, r))
             IN  Settle(S2, c, Err("NetworkError", "No internet connection available"))
        ELSE [S1 EXCEPT !.call[c] =
                 [@ EXCEPT !.pc = "fetch",
                           !.retries = r,
                           !.abortAt = S.now + timeout * (retries - r + 1),
                           !.timer = S.now + connectionTimeout,
                           !.attempts = @ + 1]]

\* catch that records a failure for every retryable error it catches
catchRecordsEach(S, c, error) ==
    LET r == S.call[c].retries
        S1 == [S EXCEPT !.call[c].abortAt = NULL, !.call[c].response = NoResponse]
        failed == [S1 EXCEPT !.circuitBreaker = recordFailure(@, S.now)]
    IN  IF error.name = "AbortError"
        THEN Settle(failed, c, Err("NetworkError", "Request timeout"))
        ELSE IF isRetryableError(error) /\ r > 0
        THEN [failed EXCEPT !.call[c].pc = "delay", !.call[c].timer = S.now]
        ELSE IF error.name = "TypeError"
        THEN Settle(failed, c, Err("NetworkError", "Unable to connect to the server"))
        ELSE IF error.name \in {"ServerError", "NetworkError"}
        THEN Settle(failed, c, error)
        ELSE Settle(S1, c, error)

\* The catch block of makeRequest (lines 234-269)
catch(S, c, error) ==
    LET r == S.call[c].retries
        S1 == [S EXCEPT !.call[c].abortAt = NULL, !.call[c].response = NoResponse]
        failed == [S1 EXCEPT !.circuitBreaker = recordFailure(@, S.now)]
    IN  IF error.name = "AbortError"
        THEN Settle(failed, c, Err("NetworkError", "Request timeout"))
        ELSE IF isRetryableError(error) /\ r > 0
        THEN [S1 EXCEPT !.call[c].pc = "delay", !.call[c].timer = S.now]
        ELSE IF error.name = "TypeError"
        THEN Settle(failed, c, Err("NetworkError", "Unable to connect to the server"))
        ELSE IF error.name \in {"ServerError", "NetworkError"}
        THEN Settle(failed, c, error)
        ELSE Settle(S1, c, error)

validateStatus(status) == status >= 200 /\ status < 500

\* After the race resolved with a response (lines 198-213)
\* Of the response only that it passed validateStatus is kept: its status is
\* compared next after response.json(), and is drawn again there.
afterFetch(S, c, status) ==
    LET S1 == [S EXCEPT !.call[c].abortAt = NULL,
                        !.call[c].timer = NULL,
                        !.lastSuccessfulRequest = S.now]
    IN  IF ~validateStatus(status)
        THEN catch(S1, c, Err("ServerError", "Server error occurred"))
        ELSE [S1 EXCEPT !.call[c].pc = "json", !.call[c].response = Response]

\* `data.message || fallback`
MessageOr(message, fallback) == IF message = "" THEN fallback ELSE message

\* afterJson that returns the data of an OK response without recording it
afterJsonNoRecord(S, c, status, message) ==
    LET ok == status >= 200 /\ status <= 299
        S1 == [S EXCEPT !.event = [@ EXCEPT !.call = c, !.status = status,
                                            !.message = message]]
    IN  IF ~ok
        THEN catch(S1, c, Err("Error", MessageOr(message, "Request failed")))
        ELSE Settle([S1 EXCEPT !.call[c].response = NoResponse], c, Data)

\* After response.json() resolved (lines 215-233)
\* with the response's status (first compared here) and its body's message
afterJson(S, c, status, message) ==
    LET ok == status >= 200 /\ status <= 299
        S1 == [S EXCEPT !.event = [@ EXCEPT !.call = c, !.status = status,
                                            !.message = message]]
    IN  IF ~ok
        THEN IF status = 400
             THEN catch(S1, c, Err("ValidationError", MessageOr(message, "Invalid request")))
             ELSE IF status = 401 \/ status = 403
             THEN catch(S1, c, Err("AuthenticationError",
                                   MessageOr(message, "Authentication failed")))
             ELSE catch(S1, c, Err("Error", MessageOr(message, "Request failed")))
        ELSE Settle([S1 EXCEPT !.circuitBreaker = recordSuccess(@),
                               !.call[c].response = NoResponse], c, Data)

\* ------------------------------------------------------------------ timers
\* A timer set for `t` may run once the clock can have reached t, and the
\* clock does not pass a timer that is due.
Due(t) == t < now + TickMs

\* The retry delay of call c ends (line 248-249); its jitter is drawn here.
DelayEnds(c, jitter) ==
    call[c].timer + calculateRetryDelay(retries - call[c].retries, jitter)

NoTimerOverdue ==
    /\ \A c \in Calls : call[c].pc = "fetch" => call[c].timer > now
    /\ \A c \in Calls : call[c].pc = "delay" => \E j \in Jitters : DelayEnds(c, j) > now
    /\ drain.pc = "delay" => drain.timer > now

\* ====================================================== WebSocketService.js
\* An action is one task here too: a call of a public method by the
\* application, an event of a WebSocket, or a reconnection timer. The
\* callbacks that a notification invokes run inside the task that notifies.
maxReconnectAttempts == 5       \* WebSocketService.maxReconnectAttempts
baseReconnectDelay == 1000      \* WebSocketService.baseReconnectDelay

MaxSockets == 8          \* WebSocket objects ever constructed
MaxConnects == 2         \* connect() calls the application makes
MaxSubscriptions == 2    \* callbacks the application has registered at once

DefaultUrl == "ws://localhost:8080"
Urls == {DefaultUrl, "not a url"}

\* new WebSocket(url) throws a SyntaxError when the url does not parse
UrlParses(url) == url \in {"ws://localhost:8080"}

\* A WebSocket object that can still fire an event is CONNECTING, GREETING
\* (open, with the server's CONNECTED frame on its way), OPEN, CLOSING
\* (close() was called) or FAILED (its error event fired, its close event
\* follows). After its close event it is CLOSED.
Alive == {"CONNECTING", "GREETING", "OPEN", "CLOSING", "FAILED"}

\* WebSocket.readyState
readyState(k) ==
    CASE k = "CONNECTING" -> 0
      [] k \in {"GREETING", "OPEN"} -> 1
      [] k = "CLOSING" -> 2
      [] OTHER -> 3

\* The frames a socket receives: the server's greeting, a reply, and a frame
\* that is not JSON.
Greeting == [text |-> "json", type |-> "CONNECTED"]
Frames == {[text |-> "json", type |-> "ENTRY_SAVED"], [text |-> "not json", type |-> ""]}

\* JSON.parse(event.data)
JSONparse(frame) ==
    IF frame.text = "json" THEN [ok |-> TRUE, message |-> frame.type]
    ELSE [ok |-> FALSE, message |-> "SyntaxError"]

\* The payloads of sendMessage: an entry, and an object that refers to itself
Payloads == {"entry", "cyclic"}

\* JSON.stringify(message)
JSONstringify(message) ==
    IF message = "cyclic" THEN [ok |-> FALSE, text |-> "TypeError"]
    ELSE [ok |-> TRUE, text |-> "json"]

\* The callbacks the application registers, by what they do when called:
\* thrower throws, remover unregisters plain, adder registers late, closer
\* calls disconnect(), plain and late return.
Callbacks == {"thrower", "remover", "adder", "closer", "plain"}

\* The application registers its callbacks in this order.
Rank(cb) ==
    CASE cb = "thrower" -> 1
      [] cb = "remover" -> 2
      [] cb = "adder" -> 3
      [] cb = "closer" -> 4
      [] OTHER -> 5

\* constructor
NewWebSocketService(url) ==
    [url |-> url,
     ws |-> "null",               \* this.ws: what the WebSocket it refers to is
     isConnected |-> FALSE,
     reconnectAttempts |-> 0,
     messageCallbacks |-> << >>,  \* a Set, in insertion order
     statusCallbacks |-> << >>]

NoSockets ==
    [others |-> [k \in Alive |-> 0],  \* how many such sockets there are
     created |-> 0,                   \* new WebSocket() calls made
     connects |-> 0,                  \* connect() calls the application made
     reconnects |-> 0,                \* connect() calls timers made since the last open event
     disconnected |-> FALSE]          \* disconnect() was called, and connect() not since

NoWsEvent ==
    [handler |-> "",             \* the method or event handler that ran
     delivered |-> << >>,        \* <<channel, callback, payload>> of each callback call
     scheduled |-> 0,            \* reconnection timers it set
     constructed |-> 0,          \* WebSockets it constructed
     message |-> "",             \* the payload sendMessage was given
     returned |-> "",            \* what sendMessage returned
     sent |-> "",                \* what the socket transmitted
     threw |-> FALSE,            \* an exception left the handler
     frame |-> "",               \* the text of the frame onmessage handled
     previous |-> ""]            \* "not json" when the task before handled such a frame

WsConstructed(url) ==
    /\ webSocketService = NewWebSocketService(url)
    /\ sockets = NoSockets
    /\ reconnectTimers = << >>
    /\ wsEvent = NoWsEvent

WsState ==
    [svc |-> webSocketService, sockets |-> sockets, timers |-> reconnectTimers,
     ev |-> [NoWsEvent EXCEPT !.previous = IF wsEvent.frame = "not json" THEN "not json" ELSE ""]]

WsCommit(W) ==
    /\ W.sockets.created <= MaxSockets
    /\ W.sockets.connects <= MaxConnects
    /\ webSocketService' = W.svc
    /\ sockets' = W.sockets
    /\ reconnectTimers' = W.timers
    /\ wsEvent' = W.ev
    /\ UNCHANGED <<httpVars, probe, abandoned>>

\* ----------------------------------------------------- the subscriber Sets
Range(seq) == {seq[i] : i \in 1..Len(seq)}
SetAdd(seq, x) == IF x \in Range(seq) THEN seq ELSE Append(seq, x)
SetDelete(seq, x) == SelectSeq(seq, LAMBDA y : y # x)

onMessage(W, callback) == [W EXCEPT !.svc.messageCallbacks = SetAdd(@, callback)]
removeMessageCallback(W, callback) == [W EXCEPT !.svc.messageCallbacks = SetDelete(@, callback)]
onStatusChange(W, callback) == [W EXCEPT !.svc.statusCallbacks = SetAdd(@, callback)]
removeStatusCallback(W, callback) == [W EXCEPT !.svc.statusCallbacks = SetDelete(@, callback)]

\* WebSocket.close(): a socket that is connecting or open starts closing
close(k) == IF readyState(k) \in {0, 1} THEN "CLOSING" ELSE k

disconnect(W) ==
    [W EXCEPT !.svc.ws = IF @ = "null" THEN @ ELSE close(@),
              !.svc.isConnected = FALSE,
              !.svc.messageCallbacks = << >>,
              !.svc.statusCallbacks = << >>,
              !.sockets.disconnected = TRUE]

Registry(W, channel) ==
    IF channel = "message" THEN W.svc.messageCallbacks ELSE W.svc.statusCallbacks

\* callback(payload): what the callback does, and whether it throws
Call(W, channel, callback, payload) ==
    LET W1 == [W EXCEPT !.ev.delivered = Append(@, <<channel, callback, payload>>)]
    IN  CASE callback = "thrower" -> [W |-> W1, threw |-> TRUE]
          [] callback = "remover" ->
               [W |-> IF channel = "message" THEN removeMessageCallback(W1, "plain")
                      ELSE removeStatusCallback(W1, "plain"),
                threw |-> FALSE]
          [] callback = "adder" ->
               [W |-> IF channel = "message" THEN onMessage(W1, "late")
                      ELSE onStatusChange(W1, "late"),
                threw |-> FALSE]
          [] callback = "closer" -> [W |-> disconnect(W1), threw |-> FALSE]
          [] OTHER -> [W |-> W1, threw |-> FALSE]

\* Set.prototype.forEach visits the Set as it is when each entry's turn
\* comes: of the entries still to visit, those deleted meanwhile are skipped
\* and those added meanwhile are visited last.
Live(rest, old, new) ==
    SelectSeq(rest, LAMBDA x : x \in Range(new)) \o SelectSeq(new, LAMBDA x : x \notin Range(old))

RECURSIVE forEach(_, _, _, _)
\* forEach whose callback is not wrapped in try/catch
forEachUncaught(W, channel, payload, pending) ==
    IF pending = << >> THEN W
    ELSE LET r == Call(W, channel, Head(pending), payload)
         IN  IF r.threw THEN [r.W EXCEPT !.ev.threw = TRUE]
             ELSE forEach(r.W, channel, payload,
                          Live(Tail(pending), Registry(W, channel), Registry(r.W, channel)))

\* callbacks.forEach(callback => { try { callback(payload) } catch { log } }),
\* with `pending` the entries still to visit
forEach(W, channel, payload, pending) ==
    IF pending = << >> THEN W
    ELSE LET r == Call(W, channel, Head(pending), payload)
         IN  forEach(r.W, channel, payload,
                     Live(Tail(pending), Registry(W, channel), Registry(r.W, channel)))

notifyMessageReceived(W, message) ==
    forEach(W, "message", message, W.svc.messageCallbacks)

\* the payload of a status notification, as the log of deliveries holds it
StatusText(b) == IF b THEN "true" ELSE "false"

notifyStatusChange(W, isConnected) ==
    forEach(W, "status", StatusText(isConnected), W.svc.statusCallbacks)

\* ------------------------------------------------- connecting, reconnecting
handleReconnection(W) ==
    IF W.svc.reconnectAttempts < maxReconnectAttempts
    THEN [W EXCEPT !.timers = Append(@, baseReconnectDelay * (2 ^ W.svc.reconnectAttempts)),
                   !.ev.scheduled = @ + 1]
    ELSE notifyStatusChange(W, FALSE)

\* connect(): the new WebSocket replaces this.ws; the one it replaces keeps
\* its handlers, which are closures over the service
connect(W) ==
    IF UrlParses(W.svc.url)
    THEN [W EXCEPT !.svc.ws = "CONNECTING",
                   !.sockets.others =
                       IF W.svc.ws \in Alive THEN [@ EXCEPT ![W.svc.ws] = @ + 1] ELSE @,
                   !.sockets.created = @ + 1,
                   !.ev.constructed = @ + 1]
    ELSE handleReconnection(W)

\* onopen that tells no status callback
onopenSilent(W) ==
    [W EXCEPT !.svc.isConnected = TRUE,
              !.svc.reconnectAttempts = 0,
              !.sockets.reconnects = 0,
              !.ev.handler = "onopen"]

onopen(W) ==
    notifyStatusChange([W EXCEPT !.svc.isConnected = TRUE,
                                 !.svc.reconnectAttempts = 0,
                                 !.sockets.reconnects = 0,
                                 !.ev.handler = "onopen"], TRUE)

onclose(W) ==
    handleReconnection(
        notifyStatusChange([W EXCEPT !.svc.isConnected = FALSE,
                                     !.ev.handler = "onclose"], FALSE))

onerror(W) == notifyStatusChange([W EXCEPT !.ev.handler = "onerror"], FALSE)

\* onmessage that hands the frame's text to the subscribers unparsed
onmessageUnparsed(W, frame) ==
    notifyMessageReceived([W EXCEPT !.ev.handler = "onmessage", !.ev.frame = frame.text],
                          frame.text)

onmessage(W, frame) ==
    LET W1 == [W EXCEPT !.ev.handler = "onmessage", !.ev.frame = frame.text]
        parsed == JSONparse(frame)
    IN  IF parsed.ok THEN notifyMessageReceived(W1, parsed.message) ELSE W1

\* sendMessage: JSON.stringify throws on an object that refers to itself,
\* WebSocket.send throws while CONNECTING, transmits while OPEN and drops the
\* data without throwing once the socket is CLOSING or CLOSED
sendMessage(W, message) ==
    LET W1 == [W EXCEPT !.ev.handler = "sendMessage", !.ev.message = message]
        text == JSONstringify(message)
    IN  IF ~W.svc.isConnected THEN [W1 EXCEPT !.ev.returned = "false"]
        ELSE IF ~text.ok \/ W.svc.ws = "null" \/ readyState(W.svc.ws) = 0
        THEN [W1 EXCEPT !.ev.returned = "false"]
        ELSE IF readyState(W.svc.ws) = 1
        THEN [W1 EXCEPT !.ev.returned = "true", !.ev.sent = text.text]
        ELSE [W1 EXCEPT !.ev.returned = "true"]

\* ------------------------------------------------------------- the sockets
\* `who` is "this" for the socket this.ws refers to, "other" for one of the rest
Has(W, who, k) == IF who = "this" THEN W.svc.ws = k ELSE W.sockets.others[k] > 0

Becomes(W, who, from, to) ==
    IF who = "this" THEN [W EXCEPT !.svc.ws = to]
    ELSE [W EXCEPT !.sockets.others =
              [k \in Alive |-> @[k] - (IF k = from THEN 1 ELSE 0)
                                    + (IF k = to THEN 1 ELSE 0)]]

Registered == Len(webSocketService.messageCallbacks) + Len(webSocketService.statusCallbacks)

\* the callbacks the application may register next on a channel: in the
\* order of Rank, and at most one in all that is not plain
MayRegister(registry) ==
    {cb \in Callbacks :
        /\ Registered < MaxSubscriptions
        /\ \A x \in Range(registry) : Rank(x) < Rank(cb)
        /\ cb # "plain" =>
               \A x \in Range(webSocketService.messageCallbacks)
                         \cup Range(webSocketService.statusCallbacks) : Rank(x) = Rank("plain")}

\* A timer set earlier with a delay no longer than another's fires before it.
MayFire(i) == \A j \in 1..(i - 1) : reconnectTimers[j] > reconnectTimers[i]

RemoveAt(seq, i) == SubSeq(seq, 1, i - 1) \o SubSeq(seq, i + 1, Len(seq))

\* ----------------------------------------------------------------- actions
Init ==
    /\ now = 0
    /\ scenario \in Scenarios
    /\ onLine \in (IF scenario = "concurrent" THEN {TRUE} ELSE BOOLEAN)
    /\ lastSuccessfulRequest = NULL
    /\ circuitBreaker = NewCircuitBreaker
    /\ requestQueue = [queue |-> << >>, processing |-> FALSE]
    /\ drain = IdleDrain
    /\ call = [c \in Calls |-> IdleCall]
    /\ nextId = 1
    /\ abandoned = [c \in Calls |-> 0]
    /\ lastExecuted = 0
    /\ event = NoEvent
    /\ WsConstructed(DefaultUrl)
    /\ probe = NoProbe

\* AuthService calls makeRequest(url, options) with the default retries
Invoke(c) ==
    /\ c \in RunningCalls
    /\ call[c].pc = "idle"
    /\ \A d \in UserCalls : d < c => call[d].pc # "idle"    \* the calls are interchangeable
    /\ Commit(makeRequest([State EXCEPT !.call[c] = IdleCall], c, retries))

\* fetch resolves with a response before the connection timeout
FetchResolve(c) ==
    /\ call[c].pc = "fetch"
    /\ \E status \in Statuses : Commit(afterFetch(State, c, status))

\* fetch rejects: the browser could not reach the server
FetchReject(c) ==
    /\ call[c].pc = "fetch"
    /\ Commit(catch([State EXCEPT !.call[c].timer = NULL], c,
                    Err("TypeError", "Failed to fetch")))

\* the connection timeout wins the race (lines 187-195)
ConnectionTimeout(c) ==
    /\ call[c].pc = "fetch"
    /\ Due(call[c].timer)
    /\ Commit(catch([State EXCEPT !.call[c].timer = NULL], c,
                    Err("NetworkError", "Connection timeout")))

\* response.json() resolves
JsonResolve(c) ==
    /\ call[c].pc = "json"
    /\ \E status \in {s \in Statuses : validateStatus(s)}, message \in ServerMessages :
         /\ (status = 200 => message = "")
         /\ Commit(afterJson(State, c, status, message))

\* response.json() rejects: the body is not JSON, or reading it failed
JsonReject(c) ==
    /\ call[c].pc = "json"
    /\ \E error \in {Err("SyntaxError", "Unexpected token"), Err("TypeError", "Failed to fetch")} :
         Commit(catch(State, c, error))

\* the retry delay ends: makeRequest(url, options, retries - 1) (line 250)
Retry(c) ==
    /\ call[c].pc = "delay"
    /\ \E jitter \in Jitters : Due(DelayEnds(c, jitter))
    /\ Commit(makeRequest([State EXCEPT !.call[c].timer = NULL], c, call[c].retries - 1))

\* the 1 s delay of the drain loop ends (line 112)
DrainDelay ==
    /\ drain.pc = "delay"
    /\ Due(drain.timer)
    /\ Commit(processQueueLoop(State))

\* another caller of requestQueue.add, with a request like makeRequest's
ClientAdd ==
    /\ scenario = "client"
    /\ Commit(add([State EXCEPT !.nextId = @ + 1], QueuedRequest(State, retries)))

\* navigator.onLine changes
SetOnLine ==
    /\ scenario # "concurrent"
    /\ onLine' = ~onLine
    /\ event' = NoEvent
    /\ UNCHANGED <<now, lastSuccessfulRequest, circuitBreaker, requestQueue, drain,
                   call, nextId, lastExecuted, scenario>>
    /\ UNCHANGED <<wsVars, probe, abandoned>>

Tick ==
    /\ now < MaxTicks * TickMs
    /\ NoTimerOverdue
    /\ now' = now + TickMs
    /\ event' = NoEvent
    /\ UNCHANGED <<onLine, lastSuccessfulRequest, circuitBreaker, requestQueue, drain,
                   call, nextId, lastExecuted, scenario>>
    /\ UNCHANGED <<wsVars, probe, abandoned>>

Next ==
    \/ \E c \in UserCalls : Invoke(c)
    \/ \E c \in Calls : FetchResolve(c)
    \/ \E c \in Calls : FetchReject(c)
    \/ \E c \in Calls : ConnectionTimeout(c)
    \/ \E c \in Calls : JsonResolve(c)
    \/ \E c \in Calls : JsonReject(c)
    \/ \E c \in Calls : Retry(c)
    \/ DrainDelay
    \/ ClientAdd
    \/ SetOnLine
    \/ Tick

Spec == Init /\ [][Next]_vars

\* ------------------------------------------- the fetches that lost the race
\* Spec does not follow a fetch once the connection timeout has won the race
\* against it. RaceSpec does, for an application that runs one call at a
\* time: the fetch stays pending (nothing aborts it, the catch block clears
\* the abort timer) until it settles by itself, with nobody awaiting it.
ConnectionTimeoutPending(c) ==
    /\ call[c].pc = "fetch"
    /\ Due(call[c].timer)
    /\ Commit(catch([State EXCEPT !.call[c].timer = NULL, !.abandoned[c] = @ + 1], c,
                    Err("NetworkError", "Connection timeout")))

AbandonedFetchSettles(c) ==
    /\ abandoned[c] > 0
    /\ Commit([State EXCEPT !.abandoned[c] = @ - 1])

RaceInit == Init /\ scenario = "sequential"

RaceNext ==
    \/ \E c \in UserCalls : Invoke(c)
    \/ \E c \in Calls : FetchResolve(c)
    \/ \E c \in Calls : FetchReject(c)
    \/ \E c \in Calls : ConnectionTimeoutPending(c)
    \/ \E c \in Calls : AbandonedFetchSettles(c)
    \/ \E c \in Calls : JsonResolve(c)
    \/ \E c \in Calls : JsonReject(c)
    \/ \E c \in Calls : Retry(c)
    \/ SetOnLine
    \/ Tick

RaceSpec == RaceInit /\ [][RaceNext]_vars

\* ------------------------------------------- actions of WebSocketService.js
Connect ==
    WsCommit(connect([WsState EXCEPT !.sockets.connects = @ + 1,
                                     !.sockets.disconnected = FALSE,
                                     !.ev.handler = "connect"]))

Disconnect == WsCommit(disconnect([WsState EXCEPT !.ev.handler = "disconnect"]))

SendMessage == \E message \in Payloads : WsCommit(sendMessage(WsState, message))

OnMessage ==
    \E cb \in MayRegister(webSocketService.messageCallbacks) :
        WsCommit(onMessage([WsState EXCEPT !.ev.handler = "onMessage"], cb))

RemoveMessageCallback ==
    \E cb \in Range(webSocketService.messageCallbacks) :
        WsCommit(removeMessageCallback([WsState EXCEPT !.ev.handler = "removeMessageCallback"], cb))

OnStatusChange ==
    \E cb \in MayRegister(webSocketService.statusCallbacks) :
        WsCommit(onStatusChange([WsState EXCEPT !.ev.handler = "onStatusChange"], cb))

RemoveStatusCallback ==
    \E cb \in Range(webSocketService.statusCallbacks) :
        WsCommit(removeStatusCallback([WsState EXCEPT !.ev.handler = "removeStatusCallback"], cb))

\* the handshake of a socket succeeds: the server sends its greeting
SocketOpen(who) ==
    /\ Has(WsState, who, "CONNECTING")
    /\ WsCommit(onopen(Becomes(WsState, who, "CONNECTING", "GREETING")))

\* the greeting arrives
SocketGreeting(who) ==
    /\ Has(WsState, who, "GREETING")
    /\ WsCommit(onmessage(Becomes(WsState, who, "GREETING", "OPEN"), Greeting))

\* another frame arrives
SocketMessage(who) ==
    /\ Has(WsState, who, "OPEN")
    /\ \E frame \in Frames : WsCommit(onmessage(WsState, frame))

\* the connection of a socket fails: its error event
SocketError(who) ==
    \E k \in Alive \ {"FAILED"} :
        /\ Has(WsState, who, k)
        /\ WsCommit(onerror(Becomes(WsState, who, k, "FAILED")))

\* the close event of a socket
SocketClose(who) ==
    \E k \in Alive :
        /\ Has(WsState, who, k)
        /\ WsCommit(onclose(Becomes(WsState, who, k, "CLOSED")))

\* a timer of handleReconnection fires (lines 76-79)
ReconnectTimer ==
    \E i \in 1..Len(reconnectTimers) :
        /\ MayFire(i)
        /\ WsCommit(connect([WsState EXCEPT !.timers = RemoveAt(@, i),
                                            !.svc.reconnectAttempts = @ + 1,
                                            !.sockets.reconnects = @ + 1,
                                            !.ev.handler = "timer"]))

WsInit ==
    /\ now = 0
    /\ scenario = "sequential"
    /\ onLine = TRUE
    /\ lastSuccessfulRequest = NULL
    /\ circuitBreaker = NewCircuitBreaker
    /\ requestQueue = [queue |-> << >>, processing |-> FALSE]
    /\ drain = IdleDrain
    /\ call = [c \in Calls |-> IdleCall]
    /\ nextId = 1
    /\ abandoned = [c \in Calls |-> 0]
    /\ lastExecuted = 0
    /\ event = NoEvent
    /\ \E url \in Urls : WsConstructed(url)
    /\ probe = NoProbe

WsNext ==
    \/ Connect
    \/ Disconnect
    \/ SendMessage
    \/ OnMessage
    \/ RemoveMessageCallback
    \/ OnStatusChange
    \/ RemoveStatusCallback
    \/ \E who \in {"this", "other"} : SocketOpen(who)
    \/ \E who \in {"this", "other"} : SocketGreeting(who)
    \/ \E who \in {"this", "other"} : SocketMessage(who)
    \/ \E who \in {"this", "other"} : SocketError(who)
    \/ \E who \in {"this", "other"} : SocketClose(who)
    \/ ReconnectTimer

WsSpec == WsInit /\ [][WsNext]_vars

WsTypeOK ==
    /\ webSocketService.ws \in {"null", "CLOSED"} \cup Alive
    /\ webSocketService.isConnected \in BOOLEAN
    /\ webSocketService.reconnectAttempts \in Nat
    /\ sockets.created \in 0..MaxSockets
    /\ \A i \in 1..Len(reconnectTimers) : reconnectTimers[i] >= baseReconnectDelay

\* ------------------------------------------- calculateRetryDelay by itself
\* The function is called with each retry attempt 0..MaxAttempt and each
\* jitter Math.random() * 1000 can give, to the millisecond.
BackoffInit ==
    /\ now = 0
    /\ scenario = "sequential"
    /\ onLine = TRUE
    /\ lastSuccessfulRequest = NULL
    /\ circuitBreaker = NewCircuitBreaker
    /\ requestQueue = [queue |-> << >>, processing |-> FALSE]
    /\ drain = IdleDrain
    /\ call = [c \in Calls |-> IdleCall]
    /\ nextId = 1
    /\ abandoned = [c \in Calls |-> 0]
    /\ lastExecuted = 0
    /\ event = NoEvent
    /\ WsConstructed(DefaultUrl)
    /\ \E a \in 0..MaxAttempt, j \in 0..(jitterBound - 1) :
         probe = [retryAttempt |-> a, jitter |-> j, delay |-> NULL]

Backoff ==
    /\ probe.delay = NULL
    /\ probe' = [probe EXCEPT !.delay = calculateRetryDelay(probe.retryAttempt, probe.jitter)]
    /\ UNCHANGED <<httpVars, wsVars, abandoned>>

BackoffNext == Backoff

BackoffSpec == BackoffInit /\ [][BackoffNext]_vars

\* ------------------------------------------- the catch block by itself
\* One call awaits its fetch with any number of retries left, the breaker is
\* CLOSED with any count below the threshold, and the try block throws any of
\* the errors it can throw. `thrown` is the error, until it is caught.
CatchInit ==
    /\ now = timeout
    /\ scenario = "sequential"
    /\ onLine = TRUE
    /\ lastSuccessfulRequest = NULL
    /\ \E n \in 0..(failureThreshold - 1) :
         circuitBreaker = [failureCount |-> n,
                           lastFailureTime |-> IF n = 0 THEN NULL ELSE 0,
                           state |-> "CLOSED"]
    /\ requestQueue = [queue |-> << >>, processing |-> FALSE]
    /\ drain = IdleDrain
    /\ \E r \in 0..retries :
         call = [c \in Calls |->
                   IF c = 1
                   THEN [IdleCall EXCEPT !.pc = "fetch",
                                         !.retries = r,
                                         !.abortAt = now,
                                         !.timer = now,
                                         !.attempts = retries - r + 1]
                   ELSE IdleCall]
    /\ nextId = 1
    /\ abandoned = [c \in Calls |-> 0]
    /\ lastExecuted = 0
    /\ event = NoEvent
    /\ WsConstructed(DefaultUrl)
    /\ \E error \in Thrown :
         probe = [retryAttempt |-> 0, jitter |-> 0, delay |-> NULL, thrown |-> error]

Catch ==
    /\ call[1].pc = "fetch"
    /\ Commit(catch([State EXCEPT !.call[1].timer = NULL], 1, probe.thrown))

CatchNext == Catch

CatchSpec == CatchInit /\ [][CatchNext]_vars

\* ----------------------------------------------------------------- typing
TypeOK ==
    /\ now \in 0..(MaxTicks * TickMs)
    /\ onLine \in BOOLEAN
    /\ circuitBreaker.state \in {"CLOSED", "OPEN", "HALF_OPEN"}
    /\ requestQueue.processing \in BOOLEAN
    /\ drain.pc \in {"idle", "execute", "delay"}
    /\ \A c \in Calls : call[c].pc \in {"idle", "fetch", "json", "delay"}

\* What the scheduler guarantees: time passes, a timer that is due runs, and
\* the race of fetch with the connection timeout ends. Nothing makes the
\* application call again, a response body arrive, or navigator.onLine change.
Fairness ==
    /\ WF_vars(Tick)
    /\ WF_vars(DrainDelay)
    /\ \A c \in Calls :
         /\ WF_vars(Retry(c))
         /\ WF_vars(FetchResolve(c) \/ FetchReject(c) \/ ConnectionTimeout(c))

FairSpec == Spec /\ Fairness

\* ------------------------------------------------------------------ claims
\* In this step call c ran makeRequest from its first line: a new call, or
\* the retry of one after its delay.
Entered(c) ==
    /\ call[c].pc \in {"idle", "delay"}
    /\ \/ call'[c].pc = "fetch"
       \/ event'.call = c /\ event'.result # NoResult

\* the `retries` argument of that invocation
EnteredWith(c) == IF call[c].pc = "delay" THEN call[c].retries - 1 ELSE retries

\* resetTimeout has elapsed since lastFailureTime
Elapsed == now - ToNumber(circuitBreaker.lastFailureTime) >= resetTimeout

\* The error kinds of the specification, by the class of the error thrown
Kind(error) ==
    CASE error.name = "NetworkError" -> "Network"
      [] error.name = "ServerError" -> "Server"
      [] error.name = "ValidationError" -> "Validation"
      [] error.name = "AuthenticationError" -> "Authentication"
      [] OTHER -> error.name

\* The rejection of makeRequest's first lines, for the breaker `cb`
Unavailable(cb) ==
    [name |-> "NetworkError", message |-> "Service temporarily unavailable",
     context |-> <<cb.state, cb.failureCount>>]

\* C1: the recordFailure() that makes failureThreshold failures since the last
\* success leaves the breaker OPEN, and a makeRequest that starts while it is
\* OPEN and resetTimeout has not elapsed is rejected without a fetch.
C1_OpenAfterThreshold ==
    [][/\ (/\ circuitBreaker'.failureCount = circuitBreaker.failureCount + 1
           /\ circuitBreaker'.failureCount >= failureThreshold)
          => circuitBreaker'.state = "OPEN"
       /\ \A c \in Calls :
            (Entered(c) /\ circuitBreaker.state = "OPEN" /\ ~Elapsed)
            => /\ ~canRequest(circuitBreaker, now).result
               /\ call'[c] = IdleCall
               /\ event'.attempts = call[c].attempts
               /\ event'.result.message = "Service temporarily unavailable"]_vars

\* C1 witness: the fifth failure opened the breaker and the next call was rejected
C1_Witness ==
    /\ circuitBreaker.state = "OPEN"
    /\ circuitBreaker.failureCount = failureThreshold
    /\ event.result = Unavailable(circuitBreaker)
    /\ event.attempts = 0

\* C2: an OPEN breaker stays OPEN until resetTimeout has elapsed since
\* lastFailureTime, whatever the calls in flight do.
C2_StaysOpen ==
    [][(circuitBreaker.state = "OPEN" /\ ~Elapsed) => circuitBreaker'.state = "OPEN"]_vars

\* C3: while the breaker is HALF_OPEN and no success or failure has been
\* recorded, no further makeRequest call passes the gate.
C3_SingleProbe ==
    [][\A c \in Calls :
         ~(/\ circuitBreaker.state = "HALF_OPEN"
           /\ circuitBreaker' = circuitBreaker
           /\ call[c].pc = "idle"
           /\ Entered(c))]_vars

\* C4: in HALF_OPEN a success closes the breaker with failureCount 0, and a
\* recorded failure opens it with lastFailureTime the time of the failure.
C4_HalfOpenOutcome ==
    [][circuitBreaker.state = "HALF_OPEN"
       => /\ event'.result = Data
             => circuitBreaker' = [circuitBreaker EXCEPT !.state = "CLOSED",
                                                         !.failureCount = 0]
          /\ circuitBreaker'.failureCount > circuitBreaker.failureCount
             => circuitBreaker' = [circuitBreaker EXCEPT !.state = "OPEN",
                                                         !.failureCount = @ + 1,
                                                         !.lastFailureTime = now']]_vars

\* C4 witness: the probe of a HALF_OPEN breaker failed and re-opened it
C4_Witness ==
    /\ scenario = "sequential"
    /\ circuitBreaker.state = "OPEN"
    /\ circuitBreaker.failureCount = failureThreshold + 1
    /\ circuitBreaker.lastFailureTime = now
    /\ now >= resetTimeout

\* What C5 says of a makeRequest that starts while canRequest() is false,
\* but for the error it fails with.
Rejected(c) ==
    /\ event'.call = c
    /\ event'.result.context = <<circuitBreaker.state, circuitBreaker.failureCount>>
    /\ call'[c] = IdleCall
    /\ event'.attempts = call[c].attempts
    /\ event'.enqueued = 0
    /\ nextId' = nextId
    /\ (c \in UserCalls => requestQueue' = requestQueue)
    /\ circuitBreaker' = circuitBreaker

C6_ProbeFetches ==
    [][\A c \in Calls :
         (/\ call[c].pc = "idle"
          /\ Entered(c)
          /\ circuitBreaker.state = "OPEN"
          /\ Elapsed
          /\ onLine)
         => /\ circuitBreaker'.state = "HALF_OPEN"
            /\ call'[c].pc = "fetch"]_vars

\* C7: a call that reads a response with status 400 fails in that step with a
\* ValidationError, one with status 401 or 403 with an AuthenticationError;
\* it is not retried and the breaker is unchanged.
C7_NoRetryOn4xx ==
    [][\A c \in Calls :
         (event'.call = c /\ event'.status \in {400, 401, 403})
         => /\ event'.result.name =
                 (IF event'.status = 400 THEN "ValidationError" ELSE "AuthenticationError")
            /\ call'[c] = IdleCall
            /\ event'.attempts = call[c].attempts
            /\ circuitBreaker' = circuitBreaker]_vars

\* C8: a makeRequest that passes the breaker while checkConnection() is false
\* appends exactly one request for the call to the queue and fails with a
\* NetworkError, with no fetch and no failure recorded on the breaker.
C8_OfflineEnqueuesOnce ==
    [][\A c \in Calls :
         (/\ Entered(c)
          /\ canRequest(circuitBreaker, now).result
          /\ ~checkConnection(State))
         => /\ requestQueue'.queue =
                 Append(requestQueue.queue, [id |-> nextId, retries |-> EnteredWith(c)])
            /\ nextId' = nextId + 1
            /\ event'.call = c
            /\ event'.enqueued = 1
            /\ event'.result = Err("NetworkError", "No internet connection available")
            /\ call'[c] = IdleCall
            /\ event'.attempts = call[c].attempts
            /\ circuitBreaker'.failureCount = circuitBreaker.failureCount
            /\ circuitBreaker'.lastFailureTime = circuitBreaker.lastFailureTime]_vars

\* C8 witness: a call found the connection down and its request is the queue
C8_Witness ==
    /\ scenario = "sequential"
    /\ event.call \in UserCalls
    /\ event.enqueued = 1
    /\ event.result = Err("NetworkError", "No internet connection available")
    /\ event.attempts = 0
    /\ requestQueue.queue = <<[id |-> 1, retries |-> retries]>>
    /\ circuitBreaker.failureCount = 0

\* a queued request whose execute() has not run
Pending == \E i \in 1..Len(requestQueue.queue) : requestQueue.queue[i].id > lastExecuted

\* no call is in flight or waiting to retry, and no drain is running
Quiescent == drain.pc = "idle" /\ \A c \in Calls : call[c].pc = "idle"

\* C9: while checkConnection() holds, a queued request that has not run is
\* eventually run (or the connection is lost again first), with no further
\* request enqueued; stated for the states where no call is in flight.
C9_QueuedEventuallyRuns ==
    []((Pending /\ checkConnection(State) /\ Quiescent)
       => <>(~Pending \/ ~checkConnection(State)))

\* C10: the requests of the queue are in the order they were enqueued, and none
\* of them was enqueued before the request executed last.
C10_Fifo ==
    /\ \A i, j \in 1..Len(requestQueue.queue) :
         i < j => requestQueue.queue[i].id < requestQueue.queue[j].id
    /\ \A i \in 1..Len(requestQueue.queue) : requestQueue.queue[i].id >= lastExecuted

\* C10 witness: the second request runs after the first one was removed
C10_Witness ==
    /\ lastExecuted = 2
    /\ drain.pc = "execute"
    /\ Len(requestQueue.queue) = 1
    /\ Head(requestQueue.queue).id = 2

\* C11: at most one processQueue loop has started and not finished, and the
\* processing flag is true exactly while there is one.
C11_SingleDrainLoop ==
    /\ drain.loops \in {0, 1}
    /\ requestQueue.processing <=> drain.loops = 1
    /\ drain.loops = 0 <=> drain.pc = "idle"

\* C11 witness: a request was added while the loop awaited execute(), and no
\* second loop started
C11_Witness ==
    /\ requestQueue.processing
    /\ drain.loops = 1
    /\ drain.pc = "execute"
    /\ Len(requestQueue.queue) = 2

\* ------------------------------------------------ claims on the WebSocket
\* the callbacks a handler invoked on a channel, in the order of the calls
Invoked(ev, channel) ==
    LET on == SelectSeq(ev.delivered, LAMBDA d : d[1] = channel)
    IN  [i \in 1..Len(on) |-> on[i][2]]

\* C12: timers make at most maxReconnectAttempts connect() calls between one
\* open event and the next, and at the limit a close or error event notifies
\* false and sets no timer.
C12_AttemptsBounded ==
    /\ sockets.reconnects <= maxReconnectAttempts
    /\ (wsEvent.handler \in {"onclose", "onerror"}
            /\ webSocketService.reconnectAttempts >= maxReconnectAttempts)
        => wsEvent.scheduled = 0

\* C13: reconnectAttempts never exceeds maxReconnectAttempts.
C13_CounterBounded == webSocketService.reconnectAttempts <= maxReconnectAttempts

\* C14: after a close event and after an error event alike, isConnected is
\* false, the status callbacks were called with false only, and a timer was
\* set unless reconnectAttempts has reached maxReconnectAttempts.
C14_CloseAndErrorAlike ==
    wsEvent.handler \in {"onclose", "onerror"} =>
        /\ ~webSocketService.isConnected
        /\ \A i \in 1..Len(wsEvent.delivered) :
               wsEvent.delivered[i][1] = "status" /\ wsEvent.delivered[i][3] = "false"
        /\ webSocketService.reconnectAttempts < maxReconnectAttempts => wsEvent.scheduled = 1

\* C15: disconnect() leaves both registries empty, and from disconnect()
\* until the application's next connect() no WebSocket is constructed.
C15_NoSocketAfterDisconnect ==
    /\ wsEvent.handler = "disconnect" =>
           webSocketService.messageCallbacks = << >> /\ webSocketService.statusCallbacks = << >>
    /\ sockets.disconnected => wsEvent.constructed = 0

\* C16: a frame that is not JSON calls no message callback, changes nothing
\* in the service (it stays connected, with the same socket, counter and
\* registries) and sets no timer; the JSON frame that comes next is
\* delivered to the message callbacks.
C16_MalformedFrameIgnored ==
    [][/\ (wsEvent'.handler = "onmessage" /\ wsEvent'.frame = "not json") =>
            /\ wsEvent'.delivered = << >>
            /\ webSocketService' = webSocketService
            /\ reconnectTimers' = reconnectTimers
            /\ wsEvent'.scheduled = 0
            /\ ~wsEvent'.threw
       /\ (/\ wsEvent'.handler = "onmessage"
           /\ wsEvent'.frame = "json"
           /\ wsEvent'.previous = "not json"
           /\ webSocketService.messageCallbacks # << >>) =>
            /\ wsEvent'.delivered # << >>
            /\ wsEvent'.delivered[1][1] = "message"
            /\ wsEvent'.delivered[1][2] = Head(webSocketService.messageCallbacks)]_vars

C16_Witness ==
    /\ wsEvent.handler = "onmessage"
    /\ wsEvent.frame = "json"
    /\ wsEvent.previous = "not json"
    /\ wsEvent.delivered = << <<"message", "plain", "ENTRY_SAVED">> >>
    /\ webSocketService.isConnected
    /\ webSocketService.ws = "OPEN"

\* C17: no exception of a callback leaves the handler that notified, and
\* when a callback threw, every other callback registered on that channel
\* was called after it with the same payload.
C17_ThrowerIsolated ==
    /\ ~wsEvent.threw
    /\ \A i \in 1..Len(wsEvent.delivered) :
           wsEvent.delivered[i][2] = "thrower" =>
               \A cb \in Range(IF wsEvent.delivered[i][1] = "message"
                                THEN webSocketService.messageCallbacks
                                ELSE webSocketService.statusCallbacks) \ {"thrower"} :
                   \E j \in (i + 1)..Len(wsEvent.delivered) :
                       wsEvent.delivered[j] = <<wsEvent.delivered[i][1], cb, wsEvent.delivered[i][3]>>

C17_Witness ==
    /\ wsEvent.handler = "onmessage"
    /\ wsEvent.delivered = << <<"message", "thrower", "ENTRY_SAVED">>,
                              <<"message", "plain", "ENTRY_SAVED">> >>
    /\ webSocketService.messageCallbacks = <<"thrower", "plain">>

\* C18: an open event calls exactly the status callbacks that were
\* registered when it fired, and a JSON frame exactly the message callbacks
\* registered when it arrived, each once and in order, whatever the
\* callbacks do to the registries.
C18_SnapshotDelivery ==
    [][/\ wsEvent'.handler = "onopen" =>
            Invoked(wsEvent', "status") = webSocketService.statusCallbacks
       /\ (wsEvent'.handler = "onmessage" /\ wsEvent'.frame = "json") =>
            Invoked(wsEvent', "message") = webSocketService.messageCallbacks]_vars

\* C19: sendMessage never throws; when isConnected is false or the socket
\* has fired its error event it returns false and transmits nothing, and
\* when the service is connected on an open socket it transmits the
\* serialized entry and returns true.
C19_SendMessageTotal ==
    wsEvent.handler = "sendMessage" =>
        /\ ~wsEvent.threw
        /\ (~webSocketService.isConnected \/ webSocketService.ws = "FAILED") =>
               wsEvent.returned = "false" /\ wsEvent.sent = ""
        /\ (/\ webSocketService.isConnected
            /\ webSocketService.ws \in {"GREETING", "OPEN"}
            /\ wsEvent.message = "entry") =>
               wsEvent.returned = "true" /\ wsEvent.sent = "json"

\* the sockets that have opened and whose CONNECTED frame has not arrived
Greetings(svc, socks) == (IF svc.ws = "GREETING" THEN 1 ELSE 0) + socks.others["GREETING"]

\* C20 as stated: the CONNECTED message comes first and the true status
\* after it, so when an open event has told its subscribers true no
\* CONNECTED frame is still to come.
C20_MessageThenStatus ==
    (wsEvent.handler = "onopen" /\ wsEvent.delivered = << <<"status", "plain", "true">> >>)
        => Greetings(webSocketService, sockets) = 0

\* C20: an open event calls the one status callback with true exactly once
\* and calls no message callback; the CONNECTED frame of a socket arrives in
\* a later task than its open event, once, and is then delivered exactly
\* once to the one message callback: the status first, then the message.
C20_StatusThenMessage ==
    [][/\ (wsEvent'.handler = "onopen" /\ webSocketService.statusCallbacks = <<"plain">>) =>
            /\ wsEvent'.delivered = << <<"status", "plain", "true">> >>
            /\ Greetings(webSocketService', sockets') = Greetings(webSocketService, sockets) + 1
       /\ (\E i \in 1..Len(wsEvent'.delivered) : wsEvent'.delivered[i][3] = "CONNECTED") =>
            /\ wsEvent'.handler = "onmessage"
            /\ Greetings(webSocketService, sockets) > 0
            /\ webSocketService.messageCallbacks = <<"plain">> =>
                   /\ wsEvent'.delivered = << <<"message", "plain", "CONNECTED">> >>
                   /\ Greetings(webSocketService', sockets')
                          = Greetings(webSocketService, sockets) - 1]_vars

C20_Witness ==
    /\ wsEvent.handler = "onmessage"
    /\ wsEvent.delivered = << <<"message", "plain", "CONNECTED">> >>
    /\ webSocketService.messageCallbacks = <<"plain">>
    /\ webSocketService.statusCallbacks = <<"plain">>
    /\ webSocketService.isConnected
    /\ webSocketService.ws = "OPEN"
    /\ sockets.created = 1

C22_DelayBounded ==
    probe.delay # NULL =>
        /\ probe.delay <= maxRetryDelay + jitterBound
        /\ probe.delay >= Min(retryDelay, maxRetryDelay)
        /\ calculateRetryDelay(probe.retryAttempt, 0)
              <= calculateRetryDelay(probe.retryAttempt + 1, 0)

\* C22 witness: the delay of the last retry with the largest jitter
C22_Witness ==
    /\ probe.retryAttempt = retries
    /\ probe.jitter = jitterBound - 1
    /\ probe.delay = retryDelay * (2 ^ retries) + jitterBound - 1

\* In this step the fetch of call c failed: it was rejected, lost the race
\* against the connection timeout, or was answered with a status that
\* validateStatus refuses.
FetchFailed(c) ==
    /\ call[c].pc = "fetch"
    /\ call'[c] # call[c]
    /\ call'[c].pc # "json"

\* C23 (as amended): a call makes at most retries + 1 fetches. A failed fetch
\* with retries left records nothing and starts the delay, after which
\* makeRequest runs again from its first line and fetches if the breaker and
\* checkConnection() allow it. A failed fetch with no retry left records
\* exactly one failure and fails the call with a NetworkError or ServerError.
C23_RetryUntilExhausted ==
    [][\A c \in Calls :
         /\ call'[c].attempts <= retries + 1
         /\ (FetchFailed(c) /\ call[c].retries > 0)
            => /\ call'[c].pc = "delay"
               /\ call'[c].retries = call[c].retries
               /\ call'[c].attempts = call[c].attempts
               /\ circuitBreaker' = circuitBreaker
         /\ (/\ call[c].pc = "delay"
             /\ Entered(c)
             /\ canRequest(circuitBreaker, now).result
             /\ checkConnection(State))
            => /\ call'[c].pc = "fetch"
               /\ call'[c].retries = call[c].retries - 1
               /\ call'[c].attempts = call[c].attempts + 1
         /\ (FetchFailed(c) /\ call[c].retries = 0)
            => /\ call'[c] = IdleCall
               /\ event'.call = c
               /\ event'.result.name \in {"NetworkError", "ServerError"}
               /\ event'.attempts = call[c].attempts
               /\ circuitBreaker'.failureCount = circuitBreaker.failureCount + 1
               /\ circuitBreaker'.lastFailureTime = now]_vars

\* C23 witness: a call failed with the error of its fourth fetch and recorded
\* its only failure
C23_Witness ==
    /\ event.call \in UserCalls
    /\ event.attempts = retries + 1
    /\ event.result = Err("ServerError", "Server error occurred")
    /\ circuitBreaker.failureCount = 1
    /\ circuitBreaker.lastFailureTime = now

\* C23 as claimed: the end of the delay of a retry is a new fetch
C23_AsClaimed ==
    [][\A c \in Calls :
         (call[c].pc = "delay" /\ Entered(c))
         => /\ call'[c].pc = "fetch"
            /\ call'[c].attempts = call[c].attempts + 1]_vars

InFlight(c) == abandoned[c] + (IF call[c].pc = "fetch" THEN 1 ELSE 0)

\* C25: a fetch that lost the race against the timeout is aborted, so that a
\* call never has more than one fetch in flight.
C25_OneFetchInFlight == \A c \in Calls : InFlight(c) <= 1

\* ------------------------------------------- further claims on the queue
\* the sequence q2 is q with nothing or something appended
StartsWith(q2, q) == Len(q2) >= Len(q) /\ SubSeq(q2, 1, Len(q)) = q

\* C26: a step removes nothing from the queue but its head, and reorders
\* nothing. The head is removed exactly when its execute() resolved or failed
\* with an error that isRetryableError refuses, and then the loop goes on (to
\* its 1 s delay); when execute() fails with a retryable error, or the loop
\* finds checkConnection() false, the loop ends and the head stays.
C26_HeadOnly ==
    [][LET q == requestQueue.queue
           q2 == requestQueue'.queue
           settled == event'.call = QueueCall /\ event'.result # NoResult
           popped == event'.result = Data \/ ~isRetryableError(event'.result)
       IN  /\ IF settled /\ popped
              THEN /\ q # << >>
                   /\ StartsWith(q2, Tail(q))
                   /\ drain.pc = "execute"
                   /\ drain'.pc = "delay"
                   /\ requestQueue'.processing
              ELSE StartsWith(q2, q)
           /\ (settled /\ ~popped)
              => /\ drain'.pc = "idle"
                 /\ ~requestQueue'.processing
           /\ (drain.pc = "delay" /\ drain' # drain /\ q # << >> /\ ~checkConnection(State))
              => /\ q2 = q
                 /\ drain'.pc = "idle"
                 /\ ~requestQueue'.processing]_vars

\* C26 witness: the head failed with a ValidationError and was dropped, and
\* the loop goes on with the request behind it
C26_Witness ==
    /\ event.call = QueueCall
    /\ event.result = Err("ValidationError", "Invalid request")
    /\ lastExecuted = 1
    /\ drain.pc = "delay"
    /\ Len(requestQueue.queue) = 1
    /\ Head(requestQueue.queue).id = 2

\* ------------------------------------------- further claims on the breaker
\* C27: a CLOSED breaker has fewer than failureThreshold failures; an OPEN or
\* HALF_OPEN one has at least failureThreshold and a lastFailureTime; and
\* failureCount returns to 0 only in a step whose call resolved, by
\* recordSuccess().
C27_BreakerInvariants ==
    /\ [](/\ circuitBreaker.state = "CLOSED"
             => circuitBreaker.failureCount < failureThreshold
          /\ circuitBreaker.state \in {"OPEN", "HALF_OPEN"}
             => /\ circuitBreaker.failureCount >= failureThreshold
                /\ circuitBreaker.lastFailureTime # NULL)
    /\ [][circuitBreaker'.failureCount < circuitBreaker.failureCount
          => /\ event'.result = Data
             /\ circuitBreaker' = recordSuccess(circuitBreaker)]_vars

\* C27 witness: the breaker became HALF_OPEN for a call that is now fetching
C27_Witness ==
    /\ circuitBreaker.state = "HALF_OPEN"
    /\ circuitBreaker.failureCount >= failureThreshold
    /\ circuitBreaker.lastFailureTime # NULL
    /\ \E c \in Calls : call[c].pc = "fetch"

\* ------------------------------------------- further claims on checkConnection
\* the stored timestamp is more than 30 s old (line 132)
Stale == lastSuccessfulRequest # NULL /\ ~(lastSuccessfulRequest > now - 30000)

\* C28: once a makeRequest call has been refused with navigator.onLine true
\* and the breaker CLOSED because the stored timestamp is stale, a call
\* eventually fetches (unless the connection goes down or the breaker leaves
\* CLOSED first).
C28_HeuristicRecovers ==
    []((/\ onLine
        /\ circuitBreaker.state = "CLOSED"
        /\ Stale
        /\ event.enqueued = 1
        /\ event.result = Err("NetworkError", "No internet connection available"))
       => <>(\/ \E c \in Calls : call[c].pc = "fetch"
             \/ ~onLine
             \/ circuitBreaker.state # "CLOSED"))

\* ------------------------------------------- further claims on isRetryableError
\* the error makeRequest throws for a response of status 400, 401 or 403
\* (lines 215-225)
ClientError(status, message) ==
    IF status = 400
    THEN Err("ValidationError", MessageOr(message, "Invalid request"))
    ELSE Err("AuthenticationError", MessageOr(message, "Authentication failed"))

\* C29: the ValidationError or AuthenticationError of a response is refused
\* by isRetryableError whatever its message; the call that threw it does not
\* go to the retry delay, and the drain loop that ran it does not end.
C29_ClientErrorsNotRetryable ==
    [][\A c \in Calls :
         (event'.call = c /\ event'.status \in {400, 401, 403})
         => /\ ~isRetryableError(ClientError(event'.status, event'.message))
            /\ call'[c].pc # "delay"
            /\ (c = QueueCall /\ event'.result # NoResult) => drain'.pc = "delay"]_vars

\* ------------------------------------------- further claims on the WebSocket
\* the sockets the service has made that are connecting or open: this.ws and
\* the ones connect() replaced
LiveSockets(svc, socks) ==
    (IF svc.ws \in {"CONNECTING", "GREETING", "OPEN"} THEN 1 ELSE 0)
    + socks.others["CONNECTING"] + socks.others["GREETING"] + socks.others["OPEN"]

\* C30: at most one socket of the service is connecting or open, and at most
\* one reconnection timer is pending.
C30_OneSocketOneTimer ==
    /\ LiveSockets(webSocketService, sockets) <= 1
    /\ Len(reconnectTimers) <= 1

====
